---- MODULE Spec2Model ----
(***************************************************************************)
(* Model of the OTL metadata server (src/src/nexus_otl/server.py): the     *)
(* F-Engine packet-stream collation (read_chan_dest_ips), the band table   *)
(* (_get_antenna_tuning_band_info), get_observatory with its connection    *)
(* teardown, and _collect_metadata.                                        *)
(*                                                                         *)
(* Four specifications share the module:                                   *)
(*   SpecScan - one interface's header scan (merge loop, finalize loop)    *)
(*              over bounded header sequences;                             *)
(*   SpecMap  - the band table of one unit over bounded subband lists and  *)
(*              calibration values;                                        *)
(*   Spec     - one metadata request, start to finish;                     *)
(*   SpecOrder- read_chan_dest_ips and the band table of one unit, with    *)
(*              the interfaces visited in a given order.                   *)
(*                                                                         *)
(* Frequencies are real-valued in the code.  Every value the mapper forms  *)
(* is a multiple of 1/2 when the sky frequency and the channel bandwidth   *)
(* are integers, so the model carries every frequency DOUBLED, as an       *)
(* integer (fields and operators with the suffix 2).                       *)
(***************************************************************************)
EXTENDS Integers, Sequences, FiniteSets, Bags, TLC

VARIABLES
    \* ---- SpecScan: one interface's scan, server.py 118-153 ----
    feng_headers,      \* the header sequence read from the interface
    hidx,              \* number of headers the merge loop has consumed
    strm_details,      \* list[FEnginePacketDestinationDetail]
    sidx,              \* number of stream details the finalize loop has consumed
    scan_subbands,     \* the subbands this interface appended to channel_subbands
    scan_pc,           \* "merge" | "finalize" | "done" | "raised"
    \* ---- Spec: one request ----
    keys,              \* MetadataRequest.keys
    kidx,              \* number of keys _collect_metadata has dispatched
    pc,                \* position in the request
    md_dict,           \* _collect_metadata's md_dict
    md,                \* get_observatory's md
    antlo_map_fengine, \* the units whose hardware handle has been obtained
    disc_attempted,    \* units _disconnect_fengines has tried to disconnect
    fengine_n_chans,   \* feng.n_chans_f (FENCHAN)
    fengine_chan_bw,   \* FOFF, the signed channel bandwidth
    tuning_map_freq,   \* _get_tuning_data's result
    unit,              \* the unit read_chan_dest_ips is working on
    iface,             \* the interface index of the current loop
    interface_map_enabled,
    channel_subbands,  \* read_chan_dest_ips' accumulator
    antlo_map_chanband_details,
    katcp_failed,      \* history: the failed enablement and header queries
    pending_exc,       \* the exception in flight through get_observatory's finally
    outcome,           \* what the request has returned or raised
    \* ---- SpecOrder: one unit's interfaces, taken in a given order ----
    interface_order,   \* the order in which the interfaces are visited
    fpga               \* per interface: its flag, its header sequence, its failures

scanvars == <<feng_headers, hidx, strm_details, sidx, scan_subbands, scan_pc>>

reqvars == <<keys, kidx, pc, md_dict, md, antlo_map_fengine, disc_attempted,
             fengine_n_chans, fengine_chan_bw, tuning_map_freq, unit, iface,
             interface_map_enabled, channel_subbands,
             antlo_map_chanband_details, katcp_failed, pending_exc, outcome>>

ordvars == <<interface_order, fpga>>

vars == <<scanvars, reqvars, ordvars>>

-----------------------------------------------------------------------------
(* Bounds and input domains *)

MaxHeaders == 3

IPs == {"10.0.0.1", "10.0.0.2"}

Chans == {0, 1, 2}

PacketNChans == {1, 2}

Header(v, f, d, c, n, b) ==
    [valid |-> v, first |-> f, dest |-> d, chans |-> c, n_chans |-> n, is_8_bit |-> b]

\* Header records the scan is tried on.  Records that open or extend a stream
\* vary in every field the merge and the finalizer read; records that are
\* skipped vary in their flags and their destination.
HeaderRecords ==
    { Header(TRUE, TRUE, d, c, n, n = 1) : d \in IPs, c \in Chans, n \in PacketNChans }
      \cup
    { Header(vf[1], vf[2], d, 0, 1, FALSE) :
        d \in IPs, vf \in {<<TRUE, FALSE>>, <<FALSE, TRUE>>, <<FALSE, FALSE>>} }

HeaderSeqs == UNION { [1..n -> HeaderRecords] : n \in 0..MaxHeaders }

\* The header sequence of the specification's merge scenario.
ExampleHeaders ==
    << Header(TRUE, TRUE, "10.0.0.1", 0, 8, TRUE),
       Header(TRUE, TRUE, "10.0.0.1", 8, 8, TRUE),
       Header(TRUE, TRUE, "10.0.0.2", 16, 8, TRUE) >>

-----------------------------------------------------------------------------
(* The merge loop, server.py 119-133 *)

StreamDetail(h) ==
    [destination_ip |-> h.dest, start_chan |-> h.chans, end_chan |-> h.chans,
     packet_nchan |-> h.n_chans, is_8bit |-> h.is_8_bit]

\* Variant: a record extends the open stream only when it is channel-adjacent.
MergeStep_Adjacent(details, header) ==
    IF header.valid /\ header.first
    THEN IF /\ details # <<>>
            /\ details[Len(details)].destination_ip = header.dest
            /\ header.chans = details[Len(details)].end_chan
                                + details[Len(details)].packet_nchan
         THEN [details EXCEPT ![Len(details)].end_chan = header.chans]
         ELSE Append(details, StreamDetail(header))
    ELSE details

\* Variant: a new stream is put at the head of the list.
MergeStep_Prepend(details, header) ==
    IF header.valid /\ header.first
    THEN IF details # <<>> /\ details[1].destination_ip = header.dest
         THEN [details EXCEPT ![1].end_chan = header.chans]
         ELSE <<StreamDetail(header)>> \o details
    ELSE details

MergeStep(details, header) ==
    IF header.valid /\ header.first
    THEN IF details # <<>> /\ details[Len(details)].destination_ip = header.dest
         THEN [details EXCEPT ![Len(details)].end_chan = header.chans]
         ELSE Append(details, StreamDetail(header))
    ELSE details

RECURSIVE MergeHeaders(_)
MergeHeaders(headers) ==
    IF headers = <<>> THEN <<>>
    ELSE MergeStep(MergeHeaders(SubSeq(headers, 1, Len(headers) - 1)),
                   headers[Len(headers)])

-----------------------------------------------------------------------------
(* The finalize loop, server.py 135-153 *)

SubbandOf(ip, start, stop, n) ==
    [destination_ip |-> ip, start |-> start, stop |-> stop, nof_packet_streams |-> n]

\* Variant: the remainder test is applied to the end channel, not to the width.
Finalize_ModOfEnd(strm_detail) ==
    LET strm_end_chan == strm_detail.end_chan + strm_detail.packet_nchan
        strm_nchans   == strm_end_chan - strm_detail.start_chan
    IN  IF strm_end_chan % strm_detail.packet_nchan # 0
        THEN [raised |-> TRUE]
        ELSE [raised |-> FALSE,
              subband |-> SubbandOf(strm_detail.destination_ip,
                                    strm_detail.start_chan, strm_end_chan,
                                    strm_nchans \div strm_detail.packet_nchan)]

\* Variant: the stop channel is the last header's channel (the packet width is
\* not added).
Finalize_StopIsLastChan(strm_detail) ==
    LET strm_end_chan == strm_detail.end_chan
        strm_nchans   == strm_end_chan - strm_detail.start_chan
    IN  IF strm_nchans % strm_detail.packet_nchan # 0
        THEN [raised |-> TRUE]
        ELSE [raised |-> FALSE,
              subband |-> SubbandOf(strm_detail.destination_ip,
                                    strm_detail.start_chan, strm_end_chan,
                                    strm_nchans \div strm_detail.packet_nchan)]

\* One stream detail: the RuntimeError, or the subband that is appended.
Finalize(strm_detail) ==
    LET strm_end_chan == strm_detail.end_chan + strm_detail.packet_nchan
        strm_nchans   == strm_end_chan - strm_detail.start_chan
    IN  IF strm_nchans % strm_detail.packet_nchan # 0
        THEN [raised |-> TRUE]
        ELSE [raised |-> FALSE,
              subband |-> SubbandOf(strm_detail.destination_ip,
                                    strm_detail.start_chan, strm_end_chan,
                                    strm_nchans \div strm_detail.packet_nchan)]

RECURSIVE FinalizeAll(_, _)
FinalizeAll(details, acc) ==
    IF details = <<>> THEN [raised |-> FALSE, subbands |-> acc]
    ELSE LET r == Finalize(Head(details))
         IN  IF r.raised THEN [raised |-> TRUE, subbands |-> acc]
             ELSE FinalizeAll(Tail(details), Append(acc, r.subband))

\* Lines 118-153 for one interface's headers.
ScanInterface(headers) == FinalizeAll(MergeHeaders(headers), <<>>)

-----------------------------------------------------------------------------
(* SpecScan: the scan of one interface, one loop iteration per step *)

EmptyMd == [p \in {} |-> 0]

NoOutcome == [kind |-> "none", exc |-> "none", data |-> EmptyMd]

\* No interface order is under study: the code's own order applies.
OrdIdle == interface_order = <<>> /\ fpga = <<>>

\* No request is running.
ReqIdle ==
    /\ keys = <<>> /\ kidx = 0 /\ pc = "off"
    /\ md_dict = EmptyMd /\ md = EmptyMd
    /\ antlo_map_fengine = {} /\ disc_attempted = {}
    /\ fengine_n_chans = 0 /\ fengine_chan_bw = 0
    /\ tuning_map_freq = EmptyMd
    /\ unit = 0 /\ iface = 0
    /\ interface_map_enabled = <<>>
    /\ channel_subbands = <<>>
    /\ antlo_map_chanband_details = <<>>
    /\ katcp_failed = {}
    /\ pending_exc = "none" /\ outcome = NoOutcome

InitScan ==
    /\ feng_headers \in HeaderSeqs \cup {ExampleHeaders}
    /\ hidx = 0
    /\ strm_details = <<>>
    /\ sidx = 0
    /\ scan_subbands = <<>>
    /\ scan_pc = "merge"
    /\ ReqIdle
    /\ OrdIdle

ScanMergeStep ==
    /\ scan_pc = "merge"
    /\ hidx < Len(feng_headers)
    /\ strm_details' = MergeStep(strm_details, feng_headers[hidx + 1])
    /\ hidx' = hidx + 1
    /\ UNCHANGED <<feng_headers, sidx, scan_subbands, scan_pc, reqvars, ordvars>>

ScanMergeEnd ==
    /\ scan_pc = "merge"
    /\ hidx = Len(feng_headers)
    /\ scan_pc' = "finalize"
    /\ UNCHANGED <<feng_headers, hidx, strm_details, sidx, scan_subbands, reqvars, ordvars>>

ScanFinalizeStep ==
    /\ scan_pc = "finalize"
    /\ sidx < Len(strm_details)
    /\ LET r == Finalize(strm_details[sidx + 1])
       IN  IF r.raised
           THEN /\ scan_pc' = "raised"
                /\ UNCHANGED <<sidx, scan_subbands>>
           ELSE /\ scan_subbands' = Append(scan_subbands, r.subband)
                /\ sidx' = sidx + 1
                /\ UNCHANGED scan_pc
    /\ UNCHANGED <<feng_headers, hidx, strm_details, reqvars, ordvars>>

ScanFinalizeEnd ==
    /\ scan_pc = "finalize"
    /\ sidx = Len(strm_details)
    /\ scan_pc' = "done"
    /\ UNCHANGED <<feng_headers, hidx, strm_details, sidx, scan_subbands, reqvars, ordvars>>

NextScan ==
    \/ ScanMergeStep
    \/ ScanMergeEnd
    \/ ScanFinalizeStep
    \/ ScanFinalizeEnd

SpecScan == InitScan /\ [][NextScan]_vars

-----------------------------------------------------------------------------
(* The request: units, calibration inputs, metadata values *)

NUnits == 2

NInterfaces == 2

Units == 1..NUnits

\* The (antenna, tuning) pair of each unit, as the SNAP table lists them.
AntennaNames == <<"1a", "1c", "2a", "2b", "2c", "2d">>

LoIds == <<"a", "b", "a", "b", "a", "b">>

AntLo(u) == [antenna_name |-> AntennaNames[u], lo_id |-> LoIds[u]]

\* The tunings that carry a unit (the code asks for "abcd").
Tunings == {"a", "b"}

\* The sky frequency the control system reports for a tuning of a request.
SkyFreqs == {1000}

\* The channel count (n_chans_f) and the signed channel bandwidth (FOFF) of
\* the F-Engines of a request.
FengNChans == {4}

ChanBandwidths == {-1, 1}

H(d, c, n) == Header(TRUE, TRUE, d, c, n, TRUE)

\* Header sequences an interface returns during a request: idle, one stream
\* over channels 0..1, one over channels 2..3, and one whose width (3) is no
\* whole number of packets (2).
UnitHeaderSeqs ==
    { <<>>,
      << H("10.0.0.1", 0, 1), H("10.0.0.1", 1, 1) >>,
      << H("10.0.0.2", 2, 2) >>,
      << H("10.0.0.2", 0, 2), H("10.0.0.2", 1, 2) >> }

KeyObservatory == "/v1/observatory"

KeyIers == "/v1/observation/iers"

KeyLists ==
    { <<>>,
      <<KeyObservatory, KeyIers>>,
      <<KeyIers>>,
      <<"/v1/unexpected", KeyIers>> }

\* Metadata values.  A Python str, int or float; a float carries twice its
\* value in n.
StrV(x) == [kind |-> "str", s |-> x, n |-> 0]

IntV(i) == [kind |-> "int", s |-> "", n |-> i]

FloatV2(d) == [kind |-> "float", s |-> "", n |-> d]

\* _value_type (no bool is ever stored in md).
ValueType(v) ==
    IF v.kind = "str" THEN "string"
    ELSE IF v.kind = "int" THEN (IF v.n < 0 THEN "i64" ELSE "u64")
    ELSE "f64"

\* dict.update: the entries of new replace those of old.
Update(old, new) == new @@ old

\* A path is the tuple of its segments: join_as_path("/v1/observatory", "time")
\* is <<"v1", "observatory", "time">>.
ObsBase == <<"v1", "observatory">>

AntBase(u) == ObsBase \o <<"antenna", AntLo(u).antenna_name>>

ScalarMd ==
    (ObsBase \o <<"time">> :> FloatV2(0))
    @@ (ObsBase \o <<"name">> :> StrV("ATA"))
    @@ (ObsBase \o <<"coordinates", "longitude">> :> FloatV2(0))
    @@ (ObsBase \o <<"coordinates", "latitude">> :> FloatV2(0))
    @@ (ObsBase \o <<"coordinates", "altitude">> :> FloatV2(0))

AntennaLeaves ==
    { <<"number">>, <<"diameter">>,
      <<"position", "x">>, <<"position", "y">>, <<"position", "z">>,
      <<"pointing", "source_name">>, <<"pointing", "ra">>, <<"pointing", "dec">>,
      <<"pointing", "az">>, <<"pointing", "el">> }

\* _get_antenna_info
AntennaInfoMd ==
    [ p \in { AntBase(u) \o l : u \in Units, l \in AntennaLeaves } |->
        LET l == SubSeq(p, 5, Len(p))
        IN  IF l = <<"number">> THEN IntV(1)
            ELSE IF l = <<"pointing", "source_name">> THEN StrV("source")
            ELSE FloatV2(0) ]

\* get_iers
IersBase == <<"v1", "observation", "iers">>

IersMd ==
    (IersBase \o <<"pm_x_arcsec">> :> FloatV2(0))
    @@ (IersBase \o <<"pm_y_arcsec">> :> FloatV2(0))
    @@ (IersBase \o <<"ut1_utc">> :> FloatV2(0))

-----------------------------------------------------------------------------
(* The band table, server.py 218-258 *)

BandBase(u) == AntBase(u) \o <<"tunings", AntLo(u).lo_id, "bands">>

Digits == <<"0", "1", "2", "3", "4", "5", "6", "7", "8", "9">>

\* str(band_idx)
IdxStr(i) == Digits[i + 1]

\* chanband_details.sort(key=start): Python's sort is stable.
RECURSIVE InsertByStart(_, _)
InsertByStart(x, sorted) ==
    IF sorted = <<>> THEN <<x>>
    ELSE IF x.start < Head(sorted).start THEN <<x>> \o sorted
    ELSE <<Head(sorted)>> \o InsertByStart(x, Tail(sorted))

\* Variant: the list is used in collection order.
SortByStart_Unsorted(details) == details

RECURSIVE SortByStart(_)
SortByStart(details) ==
    IF details = <<>> THEN <<>>
    ELSE InsertByStart(details[Len(details)],
                       SortByStart(SubSeq(details, 1, Len(details) - 1)))

\* Variant: FENCHAN // 2, the centre channel truncated to an integer.
FengineCenterChan2_Truncated(fenchan) == 2 * (fenchan \div 2)

\* Twice fengine_center_chan = FENCHAN / 2 (true division).
FengineCenterChan2(fenchan) == fenchan

\* Twice band_center_freq of one subband.
BandCenterFreq2(chanband, fenchan, foff, lo_obsfreq) ==
    LET chanband_width    == chanband.stop - chanband.start
        band_center_chan2 == chanband_width + 2 * chanband.start + 1
    IN  2 * lo_obsfreq
          + (band_center_chan2 - FengineCenterChan2(fenchan) - 1) * foff

FrequencyStart2(chanband, fenchan, foff, lo_obsfreq) ==
    BandCenterFreq2(chanband, fenchan, foff, lo_obsfreq)
        - foff * (chanband.stop - chanband.start)

FrequencyStop2(chanband, fenchan, foff, lo_obsfreq) ==
    BandCenterFreq2(chanband, fenchan, foff, lo_obsfreq)
        + foff * (chanband.stop - chanband.start)

\* The five entries of band band_idx.
BandEntryMd(u, band_idx, chanband, fenchan, foff, lo_obsfreq) ==
    LET chan_path == BandBase(u) \o <<IdxStr(band_idx)>>
    IN  (chan_path \o <<"channel_start">> :> IntV(chanband.start))
        @@ (chan_path \o <<"channel_stop">> :> IntV(chanband.stop))
        @@ (chan_path \o <<"address">> :> StrV(chanband.destination_ip))
        @@ (chan_path \o <<"frequency_start">> :>
                FloatV2(FrequencyStart2(chanband, fenchan, foff, lo_obsfreq)))
        @@ (chan_path \o <<"frequency_stop">> :>
                FloatV2(FrequencyStop2(chanband, fenchan, foff, lo_obsfreq)))

RECURSIVE BandEntriesMd(_, _, _, _, _, _)
BandEntriesMd(u, sorted, band_idx, fenchan, foff, lo_obsfreq) ==
    IF band_idx >= Len(sorted) THEN EmptyMd
    ELSE Update(BandEntryMd(u, band_idx, sorted[band_idx + 1],
                            fenchan, foff, lo_obsfreq),
                BandEntriesMd(u, sorted, band_idx + 1, fenchan, foff, lo_obsfreq))

\* One unit's table: len and the entries of the start-sorted subbands.
BandTableMd(u, chanband_details, fenchan, foff, lo_obsfreq) ==
    LET sorted == SortByStart(chanband_details)
    IN  Update(BandBase(u) \o <<"len">> :> IntV(Len(sorted)),
               BandEntriesMd(u, sorted, 0, fenchan, foff, lo_obsfreq))

\* The loop over the units: a unit whose details are None is skipped.
RECURSIVE BandInfoMd(_, _, _, _, _)
BandInfoMd(u, details, fenchan, foff, freqs) ==
    IF u > Len(details) THEN EmptyMd
    ELSE Update(IF details[u].available
                THEN BandTableMd(u, details[u].subbands, fenchan, foff,
                                 freqs[AntLo(u).lo_id])
                ELSE EmptyMd,
                BandInfoMd(u + 1, details, fenchan, foff, freqs))

\* _collect_metadata's data list: paths of fewer than three segments are
\* dropped, the version segment is cut off, the value is type-tagged.
DataOf(md_map) ==
    [ k \in { Tail(p) : p \in { q \in DOMAIN md_map : Len(q) >= 3 } } |->
        LET p == CHOOSE q \in DOMAIN md_map : Len(q) >= 3 /\ Tail(q) = k
        IN  [value |-> md_map[p], type |-> ValueType(md_map[p])] ]

-----------------------------------------------------------------------------
(* Spec: one request, query_metadata -> _collect_metadata -> get_observatory *)

ScanIdle ==
    /\ feng_headers = <<>> /\ hidx = 0 /\ strm_details = <<>>
    /\ sidx = 0 /\ scan_subbands = <<>> /\ scan_pc = "off"

Init ==
    /\ keys \in KeyLists
    /\ kidx = 0
    /\ pc = "collect"
    /\ md_dict = EmptyMd /\ md = EmptyMd
    /\ antlo_map_fengine = {} /\ disc_attempted = {}
    /\ fengine_n_chans \in FengNChans
    /\ fengine_chan_bw \in ChanBandwidths
    /\ tuning_map_freq = EmptyMd
    /\ unit = 0 /\ iface = 0
    /\ interface_map_enabled = <<>>
    /\ channel_subbands = <<>>
    /\ antlo_map_chanband_details = <<>>
    /\ katcp_failed = {}
    /\ pending_exc = "none" /\ outcome = NoOutcome
    /\ ScanIdle
    /\ OrdIdle

\* A failed query of unit u, and how many subbands the unit had collected.
KatcpFail(u, query, collected) ==
    [unit |-> u, query |-> query, collected |-> collected]

Unavailable == [available |-> FALSE, subbands |-> <<>>]

Collated(subbands) == [available |-> TRUE, subbands |-> subbands]

\* _collect_metadata, lines 339-343: get_observatory is called for an empty
\* key list, and for the key "/v1/observatory".  Lines 262-275: the scalar
\* entries, the antenna entries, then the hardware handles.
CallObservatory ==
    /\ pc = "collect"
    /\ \/ keys = <<>> /\ kidx = 0
       \/ kidx < Len(keys) /\ keys[kidx + 1] = KeyObservatory
    /\ kidx' = kidx + 1
    /\ md' = Update(ScalarMd, AntennaInfoMd)
    /\ antlo_map_fengine' = Units
    /\ disc_attempted' = {}
    /\ pc' = "tuning"
    /\ UNCHANGED <<keys, md_dict, fengine_n_chans, fengine_chan_bw,
                   tuning_map_freq, unit, iface, interface_map_enabled,
                   channel_subbands, antlo_map_chanband_details, katcp_failed,
                   pending_exc, outcome, scanvars, ordvars>>

\* Lines 344-345.
CallIers ==
    /\ pc = "collect"
    /\ kidx < Len(keys) /\ keys[kidx + 1] = KeyIers
    /\ kidx' = kidx + 1
    /\ md_dict' = Update(md_dict, IersMd)
    /\ UNCHANGED <<keys, pc, md, antlo_map_fengine, disc_attempted,
                   fengine_n_chans, fengine_chan_bw, tuning_map_freq, unit,
                   iface, interface_map_enabled, channel_subbands,
                   antlo_map_chanband_details, katcp_failed, pending_exc,
                   outcome, scanvars, ordvars>>

\* Lines 346-347: a warning, nothing collected.
UnexpectedKey ==
    /\ pc = "collect"
    /\ kidx < Len(keys) /\ keys[kidx + 1] \notin {KeyObservatory, KeyIers}
    /\ kidx' = kidx + 1
    /\ UNCHANGED <<keys, pc, md_dict, md, antlo_map_fengine, disc_attempted,
                   fengine_n_chans, fengine_chan_bw, tuning_map_freq, unit,
                   iface, interface_map_enabled, channel_subbands,
                   antlo_map_chanband_details, katcp_failed, pending_exc,
                   outcome, scanvars, ordvars>>

\* Lines 349-365.
CollectReturn ==
    /\ pc = "collect"
    /\ \/ keys = <<>> /\ kidx = 1
       \/ keys # <<>> /\ kidx = Len(keys)
    /\ outcome' = [kind |-> "returned", exc |-> "none", data |-> DataOf(md_dict)]
    /\ pc' = "done"
    /\ UNCHANGED <<keys, kidx, md_dict, md, antlo_map_fengine, disc_attempted,
                   fengine_n_chans, fengine_chan_bw, tuning_map_freq, unit,
                   iface, interface_map_enabled, channel_subbands,
                   antlo_map_chanband_details, katcp_failed, pending_exc,
                   scanvars, ordvars>>

\* Line 276, _get_tuning_data: the control system answers for every tuning.
GetTuningData ==
    /\ pc = "tuning"
    /\ tuning_map_freq' \in [Tunings -> SkyFreqs]
    /\ pc' = "enable"
    /\ unit' = 1 /\ iface' = 0
    /\ interface_map_enabled' = <<>>
    /\ channel_subbands' = <<>>
    /\ antlo_map_chanband_details' = <<>>
    /\ UNCHANGED <<keys, kidx, md_dict, md, antlo_map_fengine, disc_attempted,
                   fengine_n_chans, fengine_chan_bw, katcp_failed, pending_exc,
                   outcome, scanvars, ordvars>>

\* Line 276: ata_control.get_sky_freq raises.  The call stands before the try
\* of line 277, so the exception leaves get_observatory and _collect_metadata
\* at once.
GetTuningDataFail ==
    /\ pc = "tuning"
    /\ pending_exc' = "SkyFreqError"
    /\ outcome' = [kind |-> "raised", exc |-> "SkyFreqError", data |-> EmptyMd]
    /\ pc' = "done"
    /\ UNCHANGED <<keys, kidx, md_dict, md, antlo_map_fengine, disc_attempted,
                   fengine_n_chans, fengine_chan_bw, tuning_map_freq, unit,
                   iface, interface_map_enabled, channel_subbands,
                   antlo_map_chanband_details, katcp_failed, scanvars, ordvars>>

\* read_chan_dest_ips returns result for the current unit; the dict
\* comprehension of lines 214-216 goes on to the next unit.
ReturnDetails(result) ==
    /\ antlo_map_chanband_details' = Append(antlo_map_chanband_details, result)
    /\ interface_map_enabled' = <<>>
    /\ channel_subbands' = <<>>
    /\ iface' = 0
    /\ IF unit < NUnits
       THEN unit' = unit + 1 /\ pc' = "enable"
       ELSE unit' = unit /\ pc' = "bands"

\* Lines 90-94: the control register of one interface is read.
QueryEnabled ==
    /\ pc = "enable"
    /\ iface < NInterfaces
    /\ \E enabled \in BOOLEAN :
         interface_map_enabled' = Append(interface_map_enabled, enabled)
    /\ iface' = iface + 1
    /\ UNCHANGED <<keys, kidx, pc, md_dict, md, antlo_map_fengine,
                   disc_attempted, fengine_n_chans, fengine_chan_bw,
                   tuning_map_freq, unit, channel_subbands,
                   antlo_map_chanband_details, katcp_failed, pending_exc,
                   outcome, scanvars, ordvars>>

\* Lines 95-97: KatcpRequestFail, the unit is unavailable.
QueryEnabledFail ==
    /\ pc = "enable"
    /\ iface < NInterfaces
    /\ katcp_failed' = katcp_failed \cup {KatcpFail(unit, "enable", 0)}
    /\ ReturnDetails(Unavailable)
    /\ UNCHANGED <<keys, kidx, md_dict, md, antlo_map_fengine, disc_attempted,
                   fengine_n_chans, fengine_chan_bw, tuning_map_freq,
                   pending_exc, outcome, scanvars, ordvars>>

AnyEnabled ==
    \E i \in 1..Len(interface_map_enabled) : interface_map_enabled[i]

\* Lines 99-101: every output is disabled, the unit contributes [].
AllDisabled ==
    /\ pc = "enable"
    /\ iface = NInterfaces
    /\ ~AnyEnabled
    /\ ReturnDetails(Collated(<<>>))
    /\ UNCHANGED <<keys, kidx, md_dict, md, antlo_map_fengine, disc_attempted,
                   fengine_n_chans, fengine_chan_bw, tuning_map_freq,
                   katcp_failed, pending_exc, outcome, scanvars, ordvars>>

\* Line 103.
BeginHeaders ==
    /\ pc = "enable"
    /\ iface = NInterfaces
    /\ AnyEnabled
    /\ channel_subbands' = <<>>
    /\ iface' = 0
    /\ pc' = "headers"
    /\ UNCHANGED <<keys, kidx, md_dict, md, antlo_map_fengine, disc_attempted,
                   fengine_n_chans, fengine_chan_bw, tuning_map_freq, unit,
                   interface_map_enabled, antlo_map_chanband_details,
                   katcp_failed, pending_exc, outcome, scanvars, ordvars>>

\* Lines 105-106.
SkipDisabled ==
    /\ pc = "headers"
    /\ iface < NInterfaces
    /\ ~interface_map_enabled[iface + 1]
    /\ iface' = iface + 1
    /\ UNCHANGED <<keys, kidx, pc, md_dict, md, antlo_map_fengine,
                   disc_attempted, fengine_n_chans, fengine_chan_bw,
                   tuning_map_freq, unit, interface_map_enabled,
                   channel_subbands, antlo_map_chanband_details, katcp_failed,
                   pending_exc, outcome, scanvars, ordvars>>

\* Lines 107-153 for one enabled interface: the headers are read, merged and
\* finalized; the subbands are appended, or the RuntimeError of line 141
\* leaves read_chan_dest_ips and _get_antenna_tuning_band_info and reaches
\* the finally of line 289.
ReadHeaders ==
    /\ pc = "headers"
    /\ iface < NInterfaces
    /\ interface_map_enabled[iface + 1]
    /\ \E headers \in UnitHeaderSeqs :
         LET r == ScanInterface(headers)
         IN  IF r.raised
             THEN /\ pending_exc' = "RuntimeError"
                  /\ pc' = "finally"
                  /\ UNCHANGED <<iface, channel_subbands>>
             ELSE /\ channel_subbands' = channel_subbands \o r.subbands
                  /\ iface' = iface + 1
                  /\ UNCHANGED <<pc, pending_exc>>
    /\ UNCHANGED <<keys, kidx, md_dict, md, antlo_map_fengine, disc_attempted,
                   fengine_n_chans, fengine_chan_bw, tuning_map_freq, unit,
                   interface_map_enabled, antlo_map_chanband_details,
                   katcp_failed, outcome, scanvars, ordvars>>

\* Variant: a failed header query skips the interface and the collation goes
\* on with what it has.
ReadHeadersFail_SkipsInterface ==
    /\ pc = "headers"
    /\ iface < NInterfaces
    /\ interface_map_enabled[iface + 1]
    /\ katcp_failed' =
           katcp_failed \cup {KatcpFail(unit, "headers", Len(channel_subbands))}
    /\ iface' = iface + 1
    /\ UNCHANGED <<keys, kidx, pc, md_dict, md, antlo_map_fengine,
                   disc_attempted, fengine_n_chans, fengine_chan_bw,
                   tuning_map_freq, unit, interface_map_enabled,
                   channel_subbands, antlo_map_chanband_details, pending_exc,
                   outcome, scanvars, ordvars>>

\* Lines 114-116: KatcpRequestFail, the unit is unavailable; what earlier
\* interfaces contributed is dropped.
ReadHeadersFail ==
    /\ pc = "headers"
    /\ iface < NInterfaces
    /\ interface_map_enabled[iface + 1]
    /\ katcp_failed' =
           katcp_failed \cup {KatcpFail(unit, "headers", Len(channel_subbands))}
    /\ ReturnDetails(Unavailable)
    /\ UNCHANGED <<keys, kidx, md_dict, md, antlo_map_fengine, disc_attempted,
                   fengine_n_chans, fengine_chan_bw, tuning_map_freq,
                   pending_exc, outcome, scanvars, ordvars>>

\* Line 155.
ReturnSubbands ==
    /\ pc = "headers"
    /\ iface = NInterfaces
    /\ ReturnDetails(Collated(channel_subbands))
    /\ UNCHANGED <<keys, kidx, md_dict, md, antlo_map_fengine, disc_attempted,
                   fengine_n_chans, fengine_chan_bw, tuning_map_freq,
                   katcp_failed, pending_exc, outcome, scanvars, ordvars>>

\* Lines 218-258 and the md.update of line 278.
BuildBandInfo ==
    /\ pc = "bands"
    /\ md' = Update(md, BandInfoMd(1, antlo_map_chanband_details,
                                   fengine_n_chans, fengine_chan_bw,
                                   tuning_map_freq))
    /\ pc' = "fengine_info"
    /\ UNCHANGED <<keys, kidx, md_dict, antlo_map_fengine, disc_attempted,
                   fengine_n_chans, fengine_chan_bw, tuning_map_freq, unit,
                   iface, interface_map_enabled, channel_subbands,
                   antlo_map_chanband_details, katcp_failed, pending_exc,
                   outcome, scanvars, ordvars>>

\* _get_antenna_fengine_info, lines 193-208 and 284-288: the sync time of the
\* units that answer; a failed read is passed over.
FengineInfo ==
    /\ pc = "fengine_info"
    /\ \E answered \in SUBSET Units :
         md' = Update(md, [ p \in { AntBase(u) \o <<"fengine", "synctime">> :
                                      u \in answered } |-> IntV(0) ])
    /\ pc' = "finally"
    /\ UNCHANGED <<keys, kidx, md_dict, antlo_map_fengine, disc_attempted,
                   fengine_n_chans, fengine_chan_bw, tuning_map_freq, unit,
                   iface, interface_map_enabled, channel_subbands,
                   antlo_map_chanband_details, katcp_failed, pending_exc,
                   outcome, scanvars, ordvars>>

\* _disconnect_fengines, lines 158-165: the units on which disconnect has been
\* called when the loop is over; the exception of a unit in failing is caught
\* and the loop goes on.
RECURSIVE DisconnectAttempts(_, _, _)
DisconnectAttempts(u, handles, failing) ==
    IF u > NUnits THEN {}
    ELSE (IF u \in handles THEN {u} ELSE {})
           \cup DisconnectAttempts(u + 1, handles, failing)

\* The finally of lines 289-290.
DisconnectFengines ==
    /\ pc = "finally"
    /\ \E failing \in SUBSET antlo_map_fengine :
         disc_attempted' = DisconnectAttempts(1, antlo_map_fengine, failing)
    /\ pc' = "exit"
    /\ UNCHANGED <<keys, kidx, md_dict, md, antlo_map_fengine,
                   fengine_n_chans, fengine_chan_bw, tuning_map_freq, unit,
                   iface, interface_map_enabled, channel_subbands,
                   antlo_map_chanband_details, katcp_failed, pending_exc,
                   outcome, scanvars, ordvars>>

\* Line 292, and the md_dict.update of lines 340 and 343.
ObservatoryReturn ==
    /\ pc = "exit"
    /\ pending_exc = "none"
    /\ md_dict' = Update(md_dict, md)
    /\ pc' = "collect"
    /\ UNCHANGED <<keys, kidx, md, antlo_map_fengine, disc_attempted,
                   fengine_n_chans, fengine_chan_bw, tuning_map_freq, unit,
                   iface, interface_map_enabled, channel_subbands,
                   antlo_map_chanband_details, katcp_failed, pending_exc,
                   outcome, scanvars, ordvars>>

\* The exception goes on after the finally block: nothing in get_observatory,
\* _collect_metadata or query_metadata catches it.
ObservatoryRaise ==
    /\ pc = "exit"
    /\ pending_exc # "none"
    /\ outcome' = [kind |-> "raised", exc |-> pending_exc, data |-> EmptyMd]
    /\ pc' = "done"
    /\ UNCHANGED <<keys, kidx, md_dict, md, antlo_map_fengine, disc_attempted,
                   fengine_n_chans, fengine_chan_bw, tuning_map_freq, unit,
                   iface, interface_map_enabled, channel_subbands,
                   antlo_map_chanband_details, katcp_failed, pending_exc,
                   scanvars, ordvars>>

Next ==
    \/ CallObservatory
    \/ CallIers
    \/ UnexpectedKey
    \/ CollectReturn
    \/ GetTuningData
    \/ GetTuningDataFail
    \/ QueryEnabled
    \/ QueryEnabledFail
    \/ AllDisabled
    \/ BeginHeaders
    \/ SkipDisabled
    \/ ReadHeaders
    \/ ReadHeadersFail
    \/ ReturnSubbands
    \/ BuildBandInfo
    \/ FengineInfo
    \/ DisconnectFengines
    \/ ObservatoryReturn
    \/ ObservatoryRaise

Spec == Init /\ [][Next]_vars

-----------------------------------------------------------------------------
(* SpecMap: the band table of one unit, lines 218-258, on its own *)

MaxSubbands == 2

MaxFengNChans == 4

MapperBandwidths == {-2, -1, 1, 2}

MapperSkyFreqs == {0, 1000, 1001}

MapperSubbands ==
    { SubbandOf("10.0.0.1", start, stop, stop - start) :
        start \in 0..1, stop \in 1..MaxFengNChans }

MapperSubbandLists == UNION { [1..n -> MapperSubbands] : n \in 0..MaxSubbands }

InitMap ==
    /\ keys = <<>> /\ kidx = 0
    /\ pc = "map"
    /\ md_dict = EmptyMd /\ md = EmptyMd
    /\ antlo_map_fengine = {1} /\ disc_attempted = {}
    /\ fengine_n_chans \in 1..MaxFengNChans
    /\ fengine_chan_bw \in MapperBandwidths
    /\ tuning_map_freq \in [{AntLo(1).lo_id} -> MapperSkyFreqs]
    /\ unit = 1 /\ iface = 0
    /\ interface_map_enabled = <<>>
    /\ channel_subbands = <<>>
    /\ \E subbands \in MapperSubbandLists :
         antlo_map_chanband_details = <<Collated(subbands)>>
    /\ katcp_failed = {}
    /\ pending_exc = "none" /\ outcome = NoOutcome
    /\ ScanIdle
    /\ OrdIdle

MapBands ==
    /\ pc = "map"
    /\ md' = BandInfoMd(1, antlo_map_chanband_details, fengine_n_chans,
                        fengine_chan_bw, tuning_map_freq)
    /\ pc' = "mapped"
    /\ UNCHANGED <<keys, kidx, md_dict, antlo_map_fengine, disc_attempted,
                   fengine_n_chans, fengine_chan_bw, tuning_map_freq, unit,
                   iface, interface_map_enabled, channel_subbands,
                   antlo_map_chanband_details, katcp_failed, pending_exc,
                   outcome, scanvars, ordvars>>

NextMap == MapBands

SpecMap == InitMap /\ [][NextMap]_vars

-----------------------------------------------------------------------------
(* SpecOrder: one unit's collation with its interfaces visited in a given  *)
(* order.  The code visits them as range(feng.n_interfaces) lists them     *)
(* (line 90) and the dict keeps that order for the header loop (line 104); *)
(* here the order is a parameter, and <<1, ..., NInterfaces>> is the       *)
(* code's.                                                                 *)

\* Header sequences of an interface: those of a request and one more, a
\* stream of another address that starts where the first one starts.
OrderHeaderSeqs == UnitHeaderSeqs \cup { << H("10.0.0.2", 0, 1) >> }

\* What one interface does whenever it is asked: the answer to the control
\* register read, or its failure; the headers, or the failure of their read.
Eth(enabled, enable_fails, headers_fail, headers) ==
    [enabled |-> enabled, enable_fails |-> enable_fails,
     headers_fail |-> headers_fail, headers |-> headers]

EthBehaviours ==
    { Eth(e, ef, FALSE, h) : e \in BOOLEAN, ef \in BOOLEAN, h \in OrderHeaderSeqs }
      \cup { Eth(e, ef, TRUE, <<>>) : e \in BOOLEAN, ef \in BOOLEAN }

InterfaceOrders ==
    { o \in [1..NInterfaces -> 1..NInterfaces] :
        \A i, j \in 1..NInterfaces : o[i] = o[j] => i = j }

\* Lines 90-97 over the interfaces in the given order: the flags, in that
\* order, or None at the first failed query.
RECURSIVE EnableLoop(_, _, _, _)
EnableLoop(ord, hw, k, flags) ==
    IF k > Len(ord) THEN [failed |-> FALSE, flags |-> flags]
    ELSE IF hw[ord[k]].enable_fails THEN [failed |-> TRUE, flags |-> flags]
    ELSE EnableLoop(ord, hw, k + 1, Append(flags, hw[ord[k]].enabled))

\* What read_chan_dest_ips has for its caller: a list, None, or the
\* RuntimeError of line 141.
ListResult(subbands) == [kind |-> "list", subbands |-> subbands]

NoneResult == [kind |-> "none", subbands |-> <<>>]

RaisedResult == [kind |-> "raised", subbands |-> <<>>]

\* Variant: a failed header read ends the loop with what was collected.
HeaderStep_FailKeepsCollected(acc, enabled, eth) ==
    IF acc.kind # "collecting" \/ ~enabled THEN acc
    ELSE IF eth.headers_fail THEN ListResult(acc.subbands)
    ELSE LET r == ScanInterface(eth.headers)
         IN  IF r.raised THEN RaisedResult
             ELSE [acc EXCEPT !.subbands = acc.subbands \o r.subbands]

\* Lines 104-153 for one interface: skipped when disabled; None when its
\* headers cannot be read; the error when the finalizer raises; its subbands
\* appended otherwise.  Nothing is done once the loop has been left.
HeaderStep(acc, enabled, eth) ==
    IF acc.kind # "collecting" \/ ~enabled THEN acc
    ELSE IF eth.headers_fail THEN NoneResult
    ELSE LET r == ScanInterface(eth.headers)
         IN  IF r.raised THEN RaisedResult
             ELSE [acc EXCEPT !.subbands = acc.subbands \o r.subbands]

RECURSIVE HeaderLoop(_, _, _, _, _)
HeaderLoop(ord, hw, flags, k, acc) ==
    IF k > Len(ord)
    THEN (IF acc.kind = "collecting" THEN ListResult(acc.subbands) ELSE acc)
    ELSE HeaderLoop(ord, hw, flags, k + 1, HeaderStep(acc, flags[k], hw[ord[k]]))

\* read_chan_dest_ips, lines 88-155, over the interfaces in the given order.
ReadChanDestIps(ord, hw) ==
    LET en == EnableLoop(ord, hw, 1, <<>>)
    IN  IF en.failed THEN NoneResult
        ELSE IF \A k \in 1..Len(en.flags) : ~en.flags[k] THEN ListResult(<<>>)
        ELSE HeaderLoop(ord, hw, en.flags, 1,
                        [kind |-> "collecting", subbands |-> <<>>])

\* The band table the unit gets for a result (lines 219-256): none for None.
TableOf(result, fenchan, foff, lo_obsfreq) ==
    IF result.kind = "list"
    THEN BandTableMd(1, result.subbands, fenchan, foff, lo_obsfreq)
    ELSE EmptyMd

InitOrder ==
    /\ interface_order \in InterfaceOrders
    /\ fpga \in [1..NInterfaces -> EthBehaviours]
    /\ keys = <<>> /\ kidx = 0
    /\ pc = "read"
    /\ md_dict = EmptyMd /\ md = EmptyMd
    /\ antlo_map_fengine = {1} /\ disc_attempted = {}
    /\ fengine_n_chans \in FengNChans
    /\ fengine_chan_bw = 1
    /\ tuning_map_freq \in [{AntLo(1).lo_id} -> SkyFreqs]
    /\ unit = 1 /\ iface = 0
    /\ interface_map_enabled = <<>>
    /\ channel_subbands = <<>>
    /\ antlo_map_chanband_details = <<>>
    /\ katcp_failed = {}
    /\ pending_exc = "none" /\ outcome = NoOutcome
    /\ ScanIdle

\* Lines 214-216 for the unit: read_chan_dest_ips returns its list or None.
OrderRead ==
    /\ pc = "read"
    /\ LET result == ReadChanDestIps(interface_order, fpga)
       IN  /\ result.kind # "raised"
           /\ antlo_map_chanband_details' =
                  <<IF result.kind = "list" THEN Collated(result.subbands)
                    ELSE Unavailable>>
    /\ pc' = "bands"
    /\ UNCHANGED <<keys, kidx, md_dict, md, antlo_map_fengine, disc_attempted,
                   fengine_n_chans, fengine_chan_bw, tuning_map_freq, unit,
                   iface, interface_map_enabled, channel_subbands, katcp_failed,
                   pending_exc, outcome, scanvars, ordvars>>

\* Lines 140-144: the RuntimeError leaves read_chan_dest_ips.
OrderRaise ==
    /\ pc = "read"
    /\ ReadChanDestIps(interface_order, fpga).kind = "raised"
    /\ pending_exc' = "RuntimeError"
    /\ pc' = "raised"
    /\ UNCHANGED <<keys, kidx, md_dict, md, antlo_map_fengine, disc_attempted,
                   fengine_n_chans, fengine_chan_bw, tuning_map_freq, unit,
                   iface, interface_map_enabled, channel_subbands,
                   antlo_map_chanband_details, katcp_failed, outcome,
                   scanvars, ordvars>>

\* Lines 218-258 for the unit.
OrderBands ==
    /\ pc = "bands"
    /\ md' = BandInfoMd(1, antlo_map_chanband_details, fengine_n_chans,
                        fengine_chan_bw, tuning_map_freq)
    /\ pc' = "mapped"
    /\ UNCHANGED <<keys, kidx, md_dict, antlo_map_fengine, disc_attempted,
                   fengine_n_chans, fengine_chan_bw, tuning_map_freq, unit,
                   iface, interface_map_enabled, channel_subbands,
                   antlo_map_chanband_details, katcp_failed, pending_exc,
                   outcome, scanvars, ordvars>>

NextOrder == OrderRead \/ OrderRaise \/ OrderBands

SpecOrder == InitOrder /\ [][NextOrder]_vars

-----------------------------------------------------------------------------
(* Claims about the scan (SpecScan) *)

IsValidFirst(h) == h.valid /\ h.first

\* The (valid AND first) records of a header sequence, in scan order.
ValidFirst(headers) == SelectSeq(headers, IsValidFirst)

\* Sum of (stop - start) over a list of subbands.
RECURSIVE SumWidths(_)
SumWidths(sbs) ==
    IF sbs = <<>> THEN 0
    ELSE (Head(sbs).stop - Head(sbs).start) + SumWidths(Tail(sbs))

\* Sum of channels_per_packet over a list of header records.
RECURSIVE SumNChans(_)
SumNChans(F) ==
    IF F = <<>> THEN 0 ELSE Head(F).n_chans + SumNChans(Tail(F))

\* Positions of F at which a maximal same-address run begins.
RunStarts(F) == { i \in 1..Len(F) : i = 1 \/ F[i].dest # F[i - 1].dest }

KthRunStart(F, k) ==
    CHOOSE i \in RunStarts(F) : Cardinality({ j \in RunStarts(F) : j <= i }) = k

KthRunEnd(F, k) ==
    IF k = Cardinality(RunStarts(F)) THEN Len(F) ELSE KthRunStart(F, k + 1) - 1

\* The segments the claim describes: one per maximal run.
MaximalRuns(F) ==
    [ k \in 1..Cardinality(RunStarts(F)) |->
        LET s == F[KthRunStart(F, k)]
            e == F[KthRunEnd(F, k)]
        IN  [destination_ip |-> s.dest, start_chan |-> s.chans,
             end_chan |-> e.chans, packet_nchan |-> s.n_chans,
             is_8bit |-> s.is_8_bit] ]

\* C1: after any number of merge-loop iterations the stream details are
\* exactly the maximal runs of consecutive (valid AND first) records with one
\* destination address among the headers consumed so far, in scan order;
\* skipped records end no run; start, packet width and bit-depth flag come
\* from the run's first record and the last seen channel from its last
\* record; and the scenario headers yield the two subbands of the scenario.
C1_MergerEmitsMaximalRuns ==
    /\ strm_details = MaximalRuns(ValidFirst(SubSeq(feng_headers, 1, hidx)))
    /\ (feng_headers = ExampleHeaders /\ scan_pc = "done") =>
           scan_subbands = << SubbandOf("10.0.0.1", 0, 16, 2),
                              SubbandOf("10.0.0.2", 16, 24, 1) >>

\* A skipped record with another address lies between two records of one
\* address, and the two were merged into one stream.
C1_Witness ==
    /\ Len(feng_headers) = 3 /\ hidx = 3
    /\ IsValidFirst(feng_headers[1]) /\ IsValidFirst(feng_headers[3])
    /\ ~IsValidFirst(feng_headers[2])
    /\ feng_headers[2].dest # feng_headers[1].dest
    /\ feng_headers[3].dest = feng_headers[1].dest
    /\ feng_headers[3].chans = feng_headers[1].chans + 2
    /\ Len(strm_details) = 1
    /\ strm_details[1].end_chan = feng_headers[3].chans

\* C2: every stream detail the finalize loop has passed had a width that is
\* a whole number of packets and produced exactly one subband (start, stop =
\* end + channels_per_packet, address, exact stream count); the loop raises
\* only at a stream detail whose width is not a whole number of packets.
C2_FinalizerRaisesExactlyOnNonIntegerCount ==
    /\ Len(scan_subbands) = sidx
    /\ sidx <= Len(strm_details)
    /\ scan_pc = "done" => sidx = Len(strm_details)
    /\ \A k \in 1..Len(strm_details) :
         LET s    == strm_details[k]
             stop == s.end_chan + s.packet_nchan
         IN  /\ k <= sidx =>
                  /\ (stop - s.start_chan) % s.packet_nchan = 0
                  /\ scan_subbands[k].start = s.start_chan
                  /\ scan_subbands[k].stop = stop
                  /\ scan_subbands[k].destination_ip = s.destination_ip
                  /\ scan_subbands[k].nof_packet_streams * s.packet_nchan
                         = stop - s.start_chan
             /\ (scan_pc = "raised" /\ k = sidx + 1) =>
                  (stop - s.start_chan) % s.packet_nchan # 0
    /\ scan_pc = "raised" => sidx < Len(strm_details)

\* One subband was emitted and the next stream detail raised.
C2_Witness ==
    /\ scan_pc = "raised"
    /\ sidx = 1
    /\ Len(strm_details) = 2

\* C6 as claimed: whenever the finalizer raises nothing, the widths of the
\* emitted subbands add up to the channels_per_packet of the merged records.
C6_ChannelConservation_AsClaimed ==
    scan_pc = "done" =>
        SumWidths(scan_subbands) = SumNChans(ValidFirst(feng_headers))

\* Within every run, each record starts where the previous one's packet ends
\* and has the same channels_per_packet.
RunsContiguous(F) ==
    \A i \in 1..(Len(F) - 1) :
        F[i + 1].dest = F[i].dest =>
            /\ F[i + 1].chans = F[i].chans + F[i].n_chans
            /\ F[i + 1].n_chans = F[i].n_chans

\* C6 amended: conservation holds for the header sequences whose merged
\* records are channel-adjacent with one channels_per_packet per run.
C6_ChannelConservation ==
    (scan_pc = "done" /\ RunsContiguous(ValidFirst(feng_headers))) =>
        SumWidths(scan_subbands) = SumNChans(ValidFirst(feng_headers))

\* A run of two adjacent records was merged, another address follows.
C6_Witness ==
    /\ scan_pc = "done"
    /\ Len(ValidFirst(feng_headers)) = 3
    /\ RunsContiguous(ValidFirst(feng_headers))
    /\ Len(scan_subbands) = 2
    /\ scan_subbands[1].nof_packet_streams = 2

StrictlyAscending(F) ==
    \A i \in 1..(Len(F) - 1) : F[i].chans < F[i + 1].chans

\* Each record starts at or after the end of the previous record's packet,
\* and the records of one run have one channels_per_packet.
RecordsDisjoint(F) ==
    \A i \in 1..(Len(F) - 1) :
        /\ F[i + 1].chans >= F[i].chans + F[i].n_chans
        /\ F[i + 1].dest = F[i].dest => F[i + 1].n_chans = F[i].n_chans

SubbandsAscending(sbs) ==
    \A i \in 1..(Len(sbs) - 1) : sbs[i].start < sbs[i + 1].start

SubbandsDisjoint(sbs) ==
    \A i \in 1..(Len(sbs) - 1) : sbs[i].stop <= sbs[i + 1].start

\* C7 as claimed: ascending records and no finalizer error give subbands in
\* strictly ascending start order that never overlap.
C7_AscendingNoOverlap_AsClaimed ==
    (scan_pc = "done" /\ StrictlyAscending(ValidFirst(feng_headers))) =>
        /\ SubbandsAscending(scan_subbands)
        /\ SubbandsDisjoint(scan_subbands)

\* C7 amended: strictly ascending records give subbands in strictly
\* ascending start order; they never overlap when, in addition, the records
\* themselves do not overlap and each run has one channels_per_packet.
C7_AscendingNoOverlap ==
    scan_pc = "done" =>
        /\ StrictlyAscending(ValidFirst(feng_headers)) =>
               SubbandsAscending(scan_subbands)
        /\ RecordsDisjoint(ValidFirst(feng_headers)) =>
               /\ SubbandsAscending(scan_subbands)
               /\ SubbandsDisjoint(scan_subbands)

\* Three disjoint ascending records gave two subbands that touch.
C7_Witness ==
    /\ scan_pc = "done"
    /\ Len(ValidFirst(feng_headers)) = 3
    /\ RecordsDisjoint(ValidFirst(feng_headers))
    /\ Len(scan_subbands) = 2
    /\ scan_subbands[1].stop = scan_subbands[2].start

-----------------------------------------------------------------------------
(* Claims about the request (Spec) *)

\* Some entry of md_map lies under the band table of unit u.
HasBandEntry(md_map, u) ==
    \E p \in DOMAIN md_map : Len(p) > 7 /\ SubSeq(p, 1, 7) = BandBase(u)

\* The data key of a path.
KeyOf(p) == Tail(p)

HasBandData(data, u) ==
    \E k \in DOMAIN data : Len(k) > 6 /\ SubSeq(k, 1, 6) = KeyOf(BandBase(u))

FailedUnits == { f.unit : f \in katcp_failed }

\* _get_antenna_tuning_band_info has run to its end in this request.
BandsBuilt ==
    /\ pending_exc = "none"
    /\ Len(antlo_map_chanband_details) = NUnits
    /\ pc \in {"fengine_info", "finally", "exit"}

\* C3: a unit with a failed enablement or header query is reported
\* unavailable (None, whatever it had collected), raises no fatal error and
\* has no entry in any band table, not even len; every other unit that has
\* been collated has its band table in md and in the returned data.
C3_UnavailableUnitIsSkipped ==
    /\ \A f \in katcp_failed :
         /\ f.unit <= Len(antlo_map_chanband_details)
         /\ antlo_map_chanband_details[f.unit] = Unavailable
         /\ pending_exc = "RuntimeError" => unit # f.unit
         /\ ~HasBandEntry(md, f.unit)
         /\ ~HasBandEntry(md_dict, f.unit)
         /\ ~HasBandData(outcome.data, f.unit)
    /\ BandsBuilt =>
         \A v \in Units \ FailedUnits :
             /\ antlo_map_chanband_details[v].available
             /\ BandBase(v) \o <<"len">> \in DOMAIN md
    /\ (pc = "done" /\ outcome.kind = "returned"
            /\ Len(antlo_map_chanband_details) = NUnits) =>
         \A v \in Units \ FailedUnits :
             KeyOf(BandBase(v) \o <<"len">>) \in DOMAIN outcome.data
    /\ (katcp_failed # {} /\ pending_exc = "none" /\ pc = "done") =>
           outcome.kind = "returned"

\* A header query failed after the unit had collected subbands, the request
\* returned, and another unit's table, with a band in it, is in the data.
C3_Witness ==
    /\ outcome.kind = "returned"
    /\ \E f \in katcp_failed :
         /\ f.query = "headers" /\ f.collected > 0
         /\ \E v \in Units \ FailedUnits :
              /\ KeyOf(BandBase(v) \o <<"len">>) \in DOMAIN outcome.data
              /\ outcome.data[KeyOf(BandBase(v) \o <<"len">>)].value.n > 0

\* C4 as claimed: after the finalizer's error for one unit the request still
\* returns, with the band table of every other collated pair and an explicit
\* entry for the faulty unit.
C4_FinalizerFaultIsolated_AsClaimed ==
    (pc = "done" /\ pending_exc = "RuntimeError") =>
        /\ outcome.kind = "returned"
        /\ \A v \in Units \ (FailedUnits \cup {unit}) :
               KeyOf(BandBase(v) \o <<"len">>) \in DOMAIN outcome.data
        /\ HasBandData(outcome.data, unit)

\* C5 as claimed: once get_observatory is left with handles obtained, a
\* disconnect has been attempted on every one of them.
C5_HandlesReleasedOnEveryExit_AsClaimed ==
    (antlo_map_fengine # {} /\ pc \in {"collect", "done"}) =>
        antlo_map_fengine \subseteq disc_attempted

\* The i-th band of unit u as md holds it.
BandEntry(u, i) ==
    LET chan_path == BandBase(u) \o <<IdxStr(i)>>
    IN  [start |-> md[chan_path \o <<"channel_start">>].n,
         stop |-> md[chan_path \o <<"channel_stop">>].n,
         address |-> md[chan_path \o <<"address">>].s]

BandLeaves ==
    {"channel_start", "channel_stop", "address", "frequency_start", "frequency_stop"}

\* C8: once the band tables are built, every collated unit's len is the
\* number of its subbands, the entries are exactly those of the indices
\* 0..len-1, channel_start does not decrease with the index, and the entries
\* are the subbands, each one once.
C8_BandTableStructure ==
    BandsBuilt =>
        \A u \in Units :
            antlo_map_chanband_details[u].available =>
                LET subbands == antlo_map_chanband_details[u].subbands
                    n        == Len(subbands)
                IN  /\ BandBase(u) \o <<"len">> \in DOMAIN md
                    /\ md[BandBase(u) \o <<"len">>] = IntV(n)
                    /\ \A i \in 0..(Len(Digits) - 1) : \A leaf \in BandLeaves :
                         (BandBase(u) \o <<IdxStr(i), leaf>> \in DOMAIN md)
                             <=> i < n
                    /\ Cardinality({ p \in DOMAIN md :
                                       Len(p) > 7 /\ SubSeq(p, 1, 7) = BandBase(u) })
                           = 1 + 5 * n
                    /\ \A i \in 0..(n - 2) :
                         BandEntry(u, i).start <= BandEntry(u, i + 1).start
                    /\ \A j \in 1..n :
                         Cardinality({ i \in 0..(n - 1) :
                             BandEntry(u, i) =
                                 [start |-> subbands[j].start,
                                  stop |-> subbands[j].stop,
                                  address |-> subbands[j].destination_ip] })
                         = Cardinality({ k \in 1..n :
                             /\ subbands[k].start = subbands[j].start
                             /\ subbands[k].stop = subbands[j].stop
                             /\ subbands[k].destination_ip
                                    = subbands[j].destination_ip })

\* One unit collected its subbands out of start order, another is collated
\* with no subband at all.
C8_Witness ==
    /\ BandsBuilt
    /\ \E u \in Units :
         /\ antlo_map_chanband_details[u].available
         /\ Len(antlo_map_chanband_details[u].subbands) = 2
         /\ antlo_map_chanband_details[u].subbands[1].start
                > antlo_map_chanband_details[u].subbands[2].start
    /\ \E u \in Units : antlo_map_chanband_details[u] = Collated(<<>>)

\* The only subband of the unit spans the whole channel range.
FullRange ==
    /\ Len(antlo_map_chanband_details[1].subbands) = 1
    /\ antlo_map_chanband_details[1].subbands[1].start = 0
    /\ antlo_map_chanband_details[1].subbands[1].stop = fengine_n_chans

\* C9: a single subband over the full channel range 0..N is mapped to edges
\* that lie symmetrically about the sky frequency, f_LO - frequency_start =
\* frequency_stop - f_LO = bandwidth * N / 2 (all doubled here); and N = 1024,
\* bandwidth 1, f_LO = 1000 give 488 and 1512.
C9_FullRangeIsSymmetric ==
    /\ (pc = "mapped" /\ FullRange) =>
         LET f_lo2  == 2 * tuning_map_freq[AntLo(1).lo_id]
             start2 == md[BandBase(1) \o <<"0", "frequency_start">>].n
             stop2  == md[BandBase(1) \o <<"0", "frequency_stop">>].n
         IN  /\ f_lo2 - start2 = fengine_chan_bw * fengine_n_chans
             /\ stop2 - f_lo2 = fengine_chan_bw * fengine_n_chans
    /\ FrequencyStart2(SubbandOf("10.0.0.1", 0, 1024, 128), 1024, 1, 1000) = 2 * 488
    /\ FrequencyStop2(SubbandOf("10.0.0.1", 0, 1024, 128), 1024, 1, 1000) = 2 * 1512

\* A full-range table over an odd channel count with an inverted spectrum.
C9_Witness ==
    /\ pc = "mapped"
    /\ FullRange
    /\ fengine_n_chans = 3
    /\ fengine_chan_bw < 0
    /\ tuning_map_freq[AntLo(1).lo_id] = 1000

\* C10 as claimed: the data returned for an empty key list holds the entries
\* of both metadata groups.
C10_EmptyKeysCollectsAll_AsClaimed ==
    (pc = "done" /\ keys = <<>> /\ outcome.kind = "returned") =>
        /\ \A p \in DOMAIN ScalarMd : KeyOf(p) \in DOMAIN outcome.data
        /\ \A p \in DOMAIN IersMd : KeyOf(p) \in DOMAIN outcome.data

-----------------------------------------------------------------------------
(* Claims about the interface order (SpecOrder) *)

\* The unit's collation has ended, with a table, without one, or in the error.
OrderDone == pc \in {"mapped", "raised"}

\* The kind of outcome the run in interface_order had.
OutcomeKind ==
    IF pc = "raised" THEN "raised"
    ELSE IF antlo_map_chanband_details[1].available THEN "list"
    ELSE "none"

\* Another order gives the outcome kind and the band table of this run.
SameOutcome(ord) ==
    LET other == ReadChanDestIps(ord, fpga)
    IN  /\ other.kind = OutcomeKind
        /\ other.kind = "list" =>
               TableOf(other, fengine_n_chans, fengine_chan_bw,
                       tuning_map_freq[AntLo(1).lo_id]) = md

EnabledInterfaces == { i \in 1..NInterfaces : fpga[i].enabled }

Raising(i) == ~fpga[i].headers_fail /\ ScanInterface(fpga[i].headers).raised

\* Every enablement query answers, and the enabled interfaces hold both one
\* whose header read fails and one whose headers make the finalizer raise.
MixedFaults ==
    /\ \A i \in 1..NInterfaces : ~fpga[i].enable_fails
    /\ \E i \in EnabledInterfaces : fpga[i].headers_fail
    /\ \E i \in EnabledInterfaces : Raising(i)

SubbandsOfInterface(i) ==
    IF fpga[i].headers_fail \/ Raising(i) THEN <<>>
    ELSE ScanInterface(fpga[i].headers).subbands

\* Subbands of two different enabled interfaces that start at the same
\* channel have the same stop and the same address.
TiesAgree ==
    \A i, j \in EnabledInterfaces :
        i # j =>
            \A a \in 1..Len(SubbandsOfInterface(i)) :
            \A b \in 1..Len(SubbandsOfInterface(j)) :
                LET x == SubbandsOfInterface(i)[a]
                    y == SubbandsOfInterface(j)[b]
                IN  x.start = y.start =>
                        x.stop = y.stop /\ x.destination_ip = y.destination_ip

\* C11 as claimed: whatever the flags, header sequences and failures of the
\* interfaces, every order of visiting them gives the same kind of outcome
\* and, when a band table is produced, the same table entry by entry.
C11_OrderIndependent_AsClaimed ==
    OrderDone => \A ord \in InterfaceOrders : SameOutcome(ord)

\* C11: every order of visiting the interfaces gives the same kind of outcome
\* unless a failing header read and a finalizer error meet among the enabled
\* interfaces (then the kind is None or the error, by which comes first), and
\* the same band table when equal-start subbands of different interfaces
\* agree in stop and address.
C11_OrderIndependent ==
    OrderDone =>
        \A ord \in InterfaceOrders :
            LET other == ReadChanDestIps(ord, fpga)
            IN  /\ ~MixedFaults => other.kind = OutcomeKind
                /\ MixedFaults => other.kind \in {"none", "raised"}
                /\ (TiesAgree /\ OutcomeKind = "list") => SameOutcome(ord)

\* The interfaces were visited in another order than the code's, two of them
\* gave subbands, and the collected list was out of start order.
C11_Witness ==
    /\ pc = "mapped"
    /\ interface_order # [i \in 1..NInterfaces |-> i]
    /\ TiesAgree
    /\ antlo_map_chanband_details[1].available
    /\ Len(antlo_map_chanband_details[1].subbands) = 2
    /\ antlo_map_chanband_details[1].subbands[1].start
           > antlo_map_chanband_details[1].subbands[2].start
    /\ md[BandBase(1) \o <<"0", "channel_start">>].n
           < md[BandBase(1) \o <<"1", "channel_start">>].n

====
